---- MODULE Spec2Model ----
(***************************************************************************)
(* chronostream: a payment-stream record kept in one Solana account and    *)
(* the two instructions, Initialize and Terminate, that write it.          *)
(*                                                                         *)
(* 64-bit integers are kept at their full width.  A value of type i64 or   *)
(* u64 is the sequence of its 8 bytes, least significant first, which is   *)
(* also its Borsh encoding; arithmetic is done on the bytes, so that the   *)
(* wrap-around of `time_elapsed * flow_rate` and the reinterpretation      *)
(* `as u64` are the ones of the machine.                                   *)
(***************************************************************************)
EXTENDS Integers, Sequences, FiniteSets, TLC

VARIABLES
    data,      \* stream_account.data: the bytes stored in the stream account
    owner,     \* stream_account.owner
    clock,     \* the Clock sysvar as the runtime would return it now
    created,   \* history: some Initialize has returned Ok(()) on this account
    terminated, \* history: a Terminate has returned Ok(()) on this account
               \* since the last Initialize that returned Ok(())
    call,      \* the last invocation's inputs (instruction bytes, accounts, clock)
               \* and the values of `created` and `terminated` when it began
    pre,       \* stream_account.data as it was when the last invocation began
    result,    \* what the last invocation returned
    log        \* what the last invocation logged with msg!

vars == <<data, owner, clock, created, terminated, call, pre, result, log>>

----------------------------------------------------------------------------
(* Sizes of the encoded types.                                             *)

PUBKEY_BYTES == 32

WORD_BYTES == 8

WIDE_BYTES == 16

\* Borsh size of StreamConfig = mem::size_of::<StreamConfig>() = 32+32+8+8+8
RecordSize == 88

\* Number of distinct public keys the callers may present (Pubkey(0) is
\* Pubkey::default()).
NumKeys == 2

----------------------------------------------------------------------------
(* Byte-level arithmetic: little-endian sequences of bytes.                *)

ZeroBytes(n) == [i \in 1..n |-> 0]

\* The n low bytes of a natural number below 2^31.
LeBytes(v, n) ==
    [i \in 1..n |->
        CASE i = 1 -> v % 256
          [] i = 2 -> (v \div 256) % 256
          [] i = 3 -> (v \div 65536) % 256
          [] i = 4 -> (v \div 16777216) % 256
          [] OTHER -> 0]

RECURSIVE AddFrom(_, _, _, _)
\* a + b + carry, modulo 256^Len(a), from byte i upwards
AddFrom(a, b, i, carry) ==
    IF i > Len(a) THEN << >>
    ELSE LET s == a[i] + b[i] + carry
         IN  <<s % 256>> \o AddFrom(a, b, i + 1, s \div 256)

Complement(a) == [i \in 1..Len(a) |-> 255 - a[i]]

WrappingAdd(a, b) == AddFrom(a, b, 1, 0)

WrappingSub(a, b) == AddFrom(a, Complement(b), 1, 1)

WrappingNeg(a) == AddFrom(Complement(a), ZeroBytes(Len(a)), 1, 1)

RECURSIVE ColumnSum(_, _, _, _)
\* sum of a[j] * b[k - j + 1] for j in i..k
ColumnSum(a, b, k, i) ==
    IF i > k THEN 0
    ELSE a[i] * b[k - i + 1] + ColumnSum(a, b, k, i + 1)

RECURSIVE MulFrom(_, _, _, _)
MulFrom(a, b, k, carry) ==
    IF k > Len(a) THEN << >>
    ELSE LET s == ColumnSum(a, b, k, 1) + carry
         IN  <<s % 256>> \o MulFrom(a, b, k + 1, s \div 256)

\* a * b modulo 256^Len(a)
WrappingMul(a, b) == MulFrom(a, b, 1, 0)

\* sign bit of a two's-complement value
IsNegative(a) == a[Len(a)] >= 128

\* i64 -> i128
SignExtend(a) ==
    a \o [i \in 1..(WIDE_BYTES - Len(a)) |-> IF IsNegative(a) THEN 255 ELSE 0]

\* u64 -> i128
ZeroExtend(a) == a \o ZeroBytes(WIDE_BYTES - Len(a))

Low(w) == SubSeq(w, 1, WORD_BYTES)

RECURSIVE UnsignedGtFrom(_, _, _)
UnsignedGtFrom(a, b, i) ==
    IF i = 0 THEN FALSE
    ELSE IF a[i] # b[i] THEN a[i] > b[i]
    ELSE UnsignedGtFrom(a, b, i - 1)

\* a > b, both unsigned
UnsignedGt(a, b) == UnsignedGtFrom(a, b, Len(a))

\* a > b, both two's complement
SignedGt(a, b) ==
    IF IsNegative(a) # IsNegative(b) THEN IsNegative(b)
    ELSE UnsignedGt(a, b)

\* the i64 / u64 with the value v, |v| < 2^31
I64(v) ==
    IF v >= 0 THEN LeBytes(v, WORD_BYTES)
    ELSE WrappingNeg(LeBytes(0 - v, WORD_BYTES))

U64(v) == LeBytes(v, WORD_BYTES)

----------------------------------------------------------------------------
(* Rust's i64 arithmetic.  `value` is the wrapped result the machine       *)
(* computes and `overflow` tells whether the mathematical result does not  *)
(* fit in an i64; a build with overflow checks panics where one without    *)
(* them keeps `value`.                                                     *)

i64_sub(a, b) ==
    LET w == WrappingSub(SignExtend(a), SignExtend(b))
    IN  [value |-> Low(w), overflow |-> w # SignExtend(Low(w))]

i64_mul(a, b) ==
    LET w == WrappingMul(SignExtend(a), SignExtend(b))
    IN  [value |-> Low(w), overflow |-> w # SignExtend(Low(w))]

\* `x as u64` of an i64: the same bits read as unsigned
as_u64(x) == x

----------------------------------------------------------------------------
(* Keys, accounts and the values the callers use.                          *)

\* Pubkey(0) is Pubkey::default(); the others stand for Pubkey::new_unique()
Pubkey(k) == [i \in 1..PUBKEY_BYTES |-> IF i = 1 THEN k ELSE 0]

Keys == {Pubkey(k) : k \in 0..(NumKeys - 1)}

\* the tests run the program under the id Pubkey::default()
program_id == Pubkey(0)

\* the owner of an account that was never assigned to the program
other_program == Pubkey(254)

\* what the program reads of a sender or receiver AccountInfo
AccountInfos == [key : Keys, is_signer : BOOLEAN]

\* the stream account as listed in `accounts`; its data and owner are the
\* variables `data` and `owner`
stream_account == [key |-> Pubkey(255), is_signer |-> FALSE]

\* `accounts`: the three accounts both instructions expect, or fewer
AccountLists ==
    {<< >>, <<stream_account>>}
        \cup {<<stream_account, s>> : s \in AccountInfos}
        \cup {<<stream_account, s, r>> : s \in AccountInfos, r \in AccountInfos}

TwoPow62 == <<0, 0, 0, 0, 0, 0, 0, 64>>

I64_MIN == <<0, 0, 0, 0, 0, 0, 0, 128>>

\* the (flow_rate, initial_balance) pairs callers pass to Initialize
InitializeArgs ==
    { <<I64(100), U64(1000)>>, <<I64(1), U64(100)>>,
      <<I64(0 - 1), U64(100)>>, <<TwoPow62, U64(100)>> }

\* the values Clock::get()?.unix_timestamp takes
Times == {I64_MIN, I64(0), I64(50), I64(1000), I64(87400)}

\* the Clock sysvar: readable with a timestamp, or not supported
Clocks == [ok : {TRUE}, unix_timestamp : Times]
              \cup {[ok |-> FALSE, unix_timestamp |-> I64(0)]}

\* sizes the stream account may have been allocated with
DataLens == {RecordSize, 40, RecordSize + 1}

----------------------------------------------------------------------------
(* The Borsh codec of state.rs.                                            *)

Initialize_instruction(flow_rate, initial_balance) ==
    [ok |-> TRUE, variant |-> "Initialize",
     flow_rate |-> flow_rate, initial_balance |-> initial_balance]

Terminate_instruction ==
    [ok |-> TRUE, variant |-> "Terminate",
     flow_rate |-> I64(0), initial_balance |-> U64(0)]

Undecodable ==
    [ok |-> FALSE, variant |-> "none",
     flow_rate |-> I64(0), initial_balance |-> U64(0)]

\* BorshSerialize for StreamInstruction: u8 variant index, then the fields
StreamInstruction_serialize(instruction) ==
    IF instruction.variant = "Initialize"
    THEN <<0>> \o instruction.flow_rate \o instruction.initial_balance
    ELSE <<1>>

\* StreamInstruction::deserialize, which leaves trailing bytes unread
StreamInstruction_deserialize(bytes) ==
    IF Len(bytes) = 0 THEN Undecodable
    ELSE IF bytes[1] = 0
         THEN IF Len(bytes) < 1 + 2 * WORD_BYTES THEN Undecodable
              ELSE Initialize_instruction(
                       SubSeq(bytes, 2, 1 + WORD_BYTES),
                       SubSeq(bytes, 2 + WORD_BYTES, 1 + 2 * WORD_BYTES))
    ELSE IF bytes[1] = 1 THEN Terminate_instruction
    ELSE Undecodable

\* StreamInstruction::try_from_slice: the variant index, the variant's
\* fields, and an error unless every byte was consumed
StreamInstruction_try_from_slice(bytes) ==
    IF Len(bytes) = 0 THEN Undecodable
    ELSE IF bytes[1] = 0
         THEN IF Len(bytes) # 1 + 2 * WORD_BYTES THEN Undecodable
              ELSE Initialize_instruction(
                       SubSeq(bytes, 2, 1 + WORD_BYTES),
                       SubSeq(bytes, 2 + WORD_BYTES, 1 + 2 * WORD_BYTES))
    ELSE IF bytes[1] = 1
         THEN IF Len(bytes) # 1 THEN Undecodable ELSE Terminate_instruction
    ELSE Undecodable

\* BorshSerialize for StreamConfig: the fields in declaration order
StreamConfig_serialize(stream) ==
    stream.sender \o stream.receiver \o stream.flow_rate
        \o stream.static_balance \o stream.start_time

\* StreamConfig::try_from_slice reading start_time ahead of static_balance
StreamConfig_try_from_slice_reordered(bytes) ==
    IF Len(bytes) # RecordSize
    THEN [ok |-> FALSE, stream |-> << >>]
    ELSE [ok |-> TRUE,
          stream |->
            [sender |-> SubSeq(bytes, 1, PUBKEY_BYTES),
             receiver |-> SubSeq(bytes, PUBKEY_BYTES + 1, 2 * PUBKEY_BYTES),
             flow_rate |-> SubSeq(bytes, 2 * PUBKEY_BYTES + 1,
                                  2 * PUBKEY_BYTES + WORD_BYTES),
             start_time |-> SubSeq(bytes, 2 * PUBKEY_BYTES + WORD_BYTES + 1,
                                   2 * PUBKEY_BYTES + 2 * WORD_BYTES),
             static_balance |-> SubSeq(bytes, 2 * PUBKEY_BYTES + 2 * WORD_BYTES + 1,
                                       2 * PUBKEY_BYTES + 3 * WORD_BYTES)]]

\* StreamConfig::try_from_slice
StreamConfig_try_from_slice(bytes) ==
    IF Len(bytes) # RecordSize
    THEN [ok |-> FALSE, stream |-> << >>]
    ELSE [ok |-> TRUE,
          stream |->
            [sender |-> SubSeq(bytes, 1, PUBKEY_BYTES),
             receiver |-> SubSeq(bytes, PUBKEY_BYTES + 1, 2 * PUBKEY_BYTES),
             flow_rate |-> SubSeq(bytes, 2 * PUBKEY_BYTES + 1,
                                  2 * PUBKEY_BYTES + WORD_BYTES),
             static_balance |-> SubSeq(bytes, 2 * PUBKEY_BYTES + WORD_BYTES + 1,
                                       2 * PUBKEY_BYTES + 2 * WORD_BYTES),
             start_time |-> SubSeq(bytes, 2 * PUBKEY_BYTES + 2 * WORD_BYTES + 1,
                                   2 * PUBKEY_BYTES + 3 * WORD_BYTES)]]

\* serialize(&mut &mut data[..]): write_all on a byte slice copies what fits
\* and fails when the slice is too short for the whole encoding
write_all(buf, bytes) ==
    [ok |-> Len(bytes) <= Len(buf),
     data |-> [i \in 1..Len(buf) |-> IF i <= Len(bytes) THEN bytes[i] ELSE buf[i]]]

\* StreamConfig::initialize with the two parties exchanged
StreamConfig_initialize_swapped(sender, receiver, flow_rate, initial_balance, start_time) ==
    [sender |-> receiver, receiver |-> sender, flow_rate |-> flow_rate,
     static_balance |-> initial_balance, start_time |-> start_time]

\* StreamConfig::initialize
StreamConfig_initialize(sender, receiver, flow_rate, initial_balance, start_time) ==
    [sender |-> sender, receiver |-> receiver, flow_rate |-> flow_rate,
     static_balance |-> initial_balance, start_time |-> start_time]

----------------------------------------------------------------------------
(* processor.rs.  Each handler is a function of its arguments and of the   *)
(* stream account (data, owner) and the clock; it yields what the call     *)
(* returns, the bytes it leaves in the stream account, and what it logs.   *)

\* an early return: nothing written, nothing logged
Fail(error) == [result |-> error, data |-> data, log |-> << >>]

\* next_account_info, three times
HasAccounts(accounts) == Len(accounts) >= 3

\* the ownership check left out
IncorrectOwner_never(pid) == FALSE

\* stream_account.owner != program_id
IncorrectOwner(pid) == owner # pid

\* the signer check letting only the stored record's sender write over it
MissingSenderSignature_unless_stored(sender) ==
    \/ ~sender.is_signer
    \/ /\ StreamConfig_try_from_slice(data).ok
       /\ data # ZeroBytes(RecordSize)
       /\ StreamConfig_try_from_slice(data).stream.sender # sender.key

\* the signer check skipped
MissingSenderSignature_never(sender) == FALSE

\* the signer check of Initialize
MissingSenderSignature(sender) == ~sender.is_signer

\* the signer check of Terminate asking for both signatures
Authorized_both(stream, sender, receiver) ==
    /\ (sender.is_signer /\ stream.sender = sender.key)
    /\ (receiver.is_signer /\ stream.receiver = receiver.key)

\* the signer check of Terminate
Authorized(stream, sender, receiver) ==
    \/ (sender.is_signer /\ stream.sender = sender.key)
    \/ (receiver.is_signer /\ stream.receiver = receiver.key)

\* the balance update without its clamp: a bare wrapping subtraction
UpdateBalance_unclamped(amount_streamed, static_balance) ==
    WrappingSub(static_balance, amount_streamed)

\* the balance update of Terminate
UpdateBalance(amount_streamed, static_balance) ==
    IF UnsignedGt(amount_streamed, static_balance)
    THEN U64(0)
    ELSE WrappingSub(static_balance, amount_streamed)

\* the party named in Terminate's log line
TerminatedBy(sender) == IF sender.is_signer THEN "sender" ELSE "receiver"

\* process_initialize storing the record before it checks the signer
process_initialize_write_first(pid, accounts, flow_rate, initial_balance) ==
    IF ~HasAccounts(accounts) THEN Fail("NotEnoughAccountKeys")
    ELSE
    LET sender == accounts[2]
        receiver == accounts[3]
    IN  IF IncorrectOwner(pid) THEN Fail("IncorrectProgramId")
        ELSE IF ~clock.ok THEN Fail("UnsupportedSysvar")
        ELSE
        LET stream == StreamConfig_initialize(sender.key, receiver.key, flow_rate,
                                              initial_balance, clock.unix_timestamp)
            written == write_all(data, StreamConfig_serialize(stream))
        IN  IF MissingSenderSignature(sender)
            THEN [result |-> "MissingRequiredSignature", data |-> written.data,
                  log |-> << >>]
            ELSE IF ~written.ok
            THEN [result |-> "BorshIoError(write)", data |-> written.data,
                  log |-> << >>]
            ELSE [result |-> "Ok", data |-> written.data,
                  log |-> <<[msg |-> "Stream initialized", flow_rate |-> flow_rate,
                             initial_balance |-> initial_balance]>>]

\* process_initialize
process_initialize(pid, accounts, flow_rate, initial_balance) ==
    IF ~HasAccounts(accounts) THEN Fail("NotEnoughAccountKeys")
    ELSE
    LET sender == accounts[2]
        receiver == accounts[3]
    IN  IF IncorrectOwner(pid) THEN Fail("IncorrectProgramId")
        ELSE IF MissingSenderSignature(sender) THEN Fail("MissingRequiredSignature")
        ELSE IF ~clock.ok THEN Fail("UnsupportedSysvar")
        ELSE
        LET start_time == clock.unix_timestamp
            stream == StreamConfig_initialize(sender.key, receiver.key,
                                              flow_rate, initial_balance, start_time)
            written == write_all(data, StreamConfig_serialize(stream))
        IN  IF ~written.ok
            THEN [result |-> "BorshIoError(write)", data |-> written.data,
                  log |-> << >>]
            ELSE [result |-> "Ok", data |-> written.data,
                  log |-> <<[msg |-> "Stream initialized", flow_rate |-> flow_rate,
                             initial_balance |-> initial_balance]>>]

\* process_terminate re-basing the record: start_time set to the current time
process_terminate_rebased(pid, accounts, overflow_checks) ==
    IF ~HasAccounts(accounts) THEN Fail("NotEnoughAccountKeys")
    ELSE
    LET sender == accounts[2]
        receiver == accounts[3]
        decoded == StreamConfig_try_from_slice(data)
        stream == decoded.stream
    IN  IF IncorrectOwner(pid) THEN Fail("IncorrectProgramId")
        ELSE IF ~decoded.ok THEN Fail("BorshIoError(record)")
        ELSE IF ~Authorized(stream, sender, receiver)
             THEN Fail("MissingRequiredSignature")
        ELSE IF ~clock.ok THEN Fail("UnsupportedSysvar")
        ELSE
        LET current_time == clock.unix_timestamp
            time_elapsed == i64_sub(current_time, stream.start_time)
            product == i64_mul(time_elapsed.value, stream.flow_rate)
            amount_streamed == as_u64(product.value)
            updated == [stream EXCEPT !.static_balance =
                            UpdateBalance(amount_streamed, stream.static_balance),
                                      !.start_time = current_time]
            written == write_all(data, StreamConfig_serialize(updated))
        IN  IF overflow_checks /\ (time_elapsed.overflow \/ product.overflow)
            THEN Fail("Panic")
            ELSE IF ~written.ok
            THEN [result |-> "BorshIoError(write)", data |-> written.data,
                  log |-> << >>]
            ELSE [result |-> "Ok", data |-> written.data,
                  log |-> <<[msg |-> "Stream terminated", by |-> TerminatedBy(sender),
                             remaining_balance |-> updated.static_balance]>>]

\* process_terminate
process_terminate(pid, accounts, overflow_checks) ==
    IF ~HasAccounts(accounts) THEN Fail("NotEnoughAccountKeys")
    ELSE
    LET sender == accounts[2]
        receiver == accounts[3]
        decoded == StreamConfig_try_from_slice(data)
        stream == decoded.stream
    IN  IF IncorrectOwner(pid) THEN Fail("IncorrectProgramId")
        ELSE IF ~decoded.ok THEN Fail("BorshIoError(record)")
        ELSE IF ~Authorized(stream, sender, receiver)
             THEN Fail("MissingRequiredSignature")
        ELSE IF ~clock.ok THEN Fail("UnsupportedSysvar")
        ELSE
        LET current_time == clock.unix_timestamp
            time_elapsed == i64_sub(current_time, stream.start_time)
            product == i64_mul(time_elapsed.value, stream.flow_rate)
            amount_streamed == as_u64(product.value)
            updated == [stream EXCEPT !.static_balance =
                            UpdateBalance(amount_streamed, stream.static_balance)]
            written == write_all(data, StreamConfig_serialize(updated))
        IN  IF overflow_checks /\ (time_elapsed.overflow \/ product.overflow)
            THEN Fail("Panic")
            ELSE IF ~written.ok
            THEN [result |-> "BorshIoError(write)", data |-> written.data,
                  log |-> << >>]
            ELSE [result |-> "Ok", data |-> written.data,
                  log |-> <<[msg |-> "Stream terminated", by |-> TerminatedBy(sender),
                             remaining_balance |-> updated.static_balance]>>]

\* process_instruction: decode, then dispatch
process_instruction(pid, accounts, instruction_data, overflow_checks) ==
    LET instruction == StreamInstruction_try_from_slice(instruction_data)
    IN  IF ~instruction.ok THEN Fail("BorshIoError(instruction)")
        ELSE IF instruction.variant = "Initialize"
             THEN process_initialize(pid, accounts, instruction.flow_rate,
                                     instruction.initial_balance)
        ELSE process_terminate(pid, accounts, overflow_checks)

----------------------------------------------------------------------------
(* The state machine: the runtime invokes the entrypoint with the accounts *)
(* and instruction bytes of a transaction; between invocations the clock   *)
(* sysvar changes.                                                         *)

\* instruction bytes that are no StreamInstruction: empty, an unknown
\* variant index, a truncated Initialize, a Terminate with a trailing byte
MalformedInstructions ==
    { << >>, <<2>>, <<0>> \o I64(100), <<1, 0>> }

NoCall ==
    [instruction_data |-> << >>, accounts |-> << >>, clock |-> clock,
     created |-> created, terminated |-> terminated]

\* bytes some other program keeps in an account it owns
ForeignData ==
    StreamConfig_serialize(
        StreamConfig_initialize(Pubkey(1), Pubkey(1), I64(7), U64(7), I64(7)))

Init ==
    /\ owner \in {program_id, other_program}
    /\ data \in {ZeroBytes(n) : n \in DataLens}
                    \cup (IF owner = other_program THEN {ForeignData} ELSE {})
    /\ clock \in Clocks
    /\ created = FALSE
    /\ terminated = FALSE
    /\ call = NoCall
    /\ pre = data
    /\ result = "None"
    /\ log = << >>

\* the entrypoint, built with or without overflow checks
Invoke(accounts, instruction_data) ==
    /\ result = "None"
    /\ \E overflow_checks \in BOOLEAN :
        LET out == process_instruction(program_id, accounts, instruction_data,
                                       overflow_checks)
            instruction == StreamInstruction_try_from_slice(instruction_data)
        IN  /\ data' = out.data
            /\ result' = out.result
            /\ log' = out.log
            /\ pre' = data
            /\ call' = [instruction_data |-> instruction_data,
                        accounts |-> accounts, clock |-> clock,
                        created |-> created, terminated |-> terminated]
            /\ created' = (created \/ (out.result = "Ok"
                                        /\ instruction.variant = "Initialize"))
            /\ terminated' = IF out.result = "Ok"
                             THEN instruction.variant = "Terminate"
                             ELSE terminated
            /\ UNCHANGED <<owner, clock>>

Initialize ==
    \E args \in InitializeArgs, accounts \in AccountLists :
        Invoke(accounts,
               StreamInstruction_serialize(Initialize_instruction(args[1], args[2])))

Terminate ==
    \E accounts \in AccountLists :
        Invoke(accounts, StreamInstruction_serialize(Terminate_instruction))

Malformed ==
    \E bytes \in MalformedInstructions, accounts \in AccountLists :
        Invoke(accounts, bytes)

\* the entrypoint returns: the ProgramResult goes to the runtime, which is
\* then free to run the next invocation (invocations on one account are
\* serialized)
Return ==
    /\ result # "None"
    /\ call' = NoCall
    /\ pre' = data
    /\ result' = "None"
    /\ log' = << >>
    /\ UNCHANGED <<data, owner, clock, created, terminated>>

\* between invocations the runtime's clock takes another value (the test
\* stubs set any value; the sysvar may also be unsupported)
SetClock ==
    /\ result = "None"
    /\ \E c \in Clocks :
        /\ c # clock
        /\ clock' = c
        /\ call' = [call EXCEPT !.clock = c]
        /\ UNCHANGED <<data, owner, created, terminated, pre, result, log>>

Next == Initialize \/ Terminate \/ Malformed \/ Return \/ SetClock

Spec == Init /\ [][Next]_vars

\* the same program under a clock that never goes back: the timestamp only
\* grows, and a readable clock stays readable
AdvanceClock ==
    /\ result = "None"
    /\ clock.ok
    /\ \E c \in Clocks :
        /\ c.ok
        /\ SignedGt(c.unix_timestamp, clock.unix_timestamp)
        /\ clock' = c
        /\ call' = [call EXCEPT !.clock = c]
        /\ UNCHANGED <<data, owner, created, terminated, pre, result, log>>

NextMonotonic == Initialize \/ Terminate \/ Malformed \/ Return \/ AdvanceClock

SpecMonotonic == Init /\ [][NextMonotonic]_vars

----------------------------------------------------------------------------
(* What the properties below speak of: the last invocation.                *)

Instruction == StreamInstruction_try_from_slice(call.instruction_data)

Invoked == result # "None"

IsInitialize == Invoked /\ Instruction.ok /\ Instruction.variant = "Initialize"

IsTerminate == Invoked /\ Instruction.ok /\ Instruction.variant = "Terminate"

ThreeAccounts == Len(call.accounts) = 3

Sender == call.accounts[2]

Receiver == call.accounts[3]

Now == call.clock.unix_timestamp

\* the record held in the first RecordSize bytes of a buffer at least that long
RecordIn(bytes) == StreamConfig_try_from_slice(SubSeq(bytes, 1, RecordSize)).stream

HoldsRecord(bytes) == Len(bytes) >= RecordSize

Before == RecordIn(pre)

After == RecordIn(data)

\* now - start_time and (now - start_time) * flow_rate as mathematical
\* integers: both fit in 128 bits, so the wide arithmetic is exact
MathElapsed == WrappingSub(SignExtend(Now), SignExtend(Before.start_time))

MathStreamed == WrappingMul(MathElapsed, SignExtend(Before.flow_rate))

\* max(0, static_balance - streamed), for streamed >= 0
Remainder ==
    IF SignedGt(MathStreamed, ZeroExtend(Before.static_balance))
    THEN U64(0)
    ELSE Low(WrappingSub(ZeroExtend(Before.static_balance), MathStreamed))

\* the elapsed time or the product does not fit in an i64
ArithmeticOverflows ==
    \/ MathElapsed # SignExtend(Low(MathElapsed))
    \/ MathStreamed # SignExtend(Low(MathStreamed))

----------------------------------------------------------------------------
\* C1: a successful Initialize leaves, in the record's bytes of the stream
\* account, the record {sender = sender account's key, receiver = receiver
\* account's key, flow_rate and static_balance = the instruction's flow_rate
\* and initial_balance, start_time = the clock value at the call}.
C1_InitializeStoresRecord ==
    (IsInitialize /\ result = "Ok") =>
        /\ HoldsRecord(data)
        /\ After.sender = Sender.key
        /\ After.receiver = Receiver.key
        /\ After.flow_rate = Instruction.flow_rate
        /\ After.static_balance = Instruction.initial_balance
        /\ After.start_time = Now

\* Scenario A with distinct parties: flow_rate 100, balance 1000, t = 1000
C1_Witness ==
    /\ IsInitialize /\ result = "Ok"
    /\ Sender.key # Receiver.key
    /\ Instruction.flow_rate = I64(100)
    /\ Instruction.initial_balance = U64(1000)
    /\ Now = I64(1000)
    /\ Len(data) = RecordSize

\* C2: with elapsed = now - start_time >= 0 and flow_rate >= 0, a successful
\* Terminate sets static_balance to max(0, static_balance - elapsed * flow_rate).
C2_TerminateSetsRemainder ==
    (/\ IsTerminate /\ result = "Ok"
     /\ ~IsNegative(MathElapsed)
     /\ ~IsNegative(Before.flow_rate)) =>
        After.static_balance = Remainder

\* C3: if elapsed * flow_rate (as a mathematical integer) is at least
\* static_balance, a successful Terminate leaves static_balance = 0, also when
\* the 64-bit product overflows.
C3_ClampsToZero ==
    (/\ IsTerminate /\ result = "Ok"
     /\ ~SignedGt(ZeroExtend(Before.static_balance), MathStreamed)) =>
        After.static_balance = U64(0)

\* C4: Terminate is monotonic: after a successful Terminate static_balance is
\* at most what it was before, for every clock value and flow_rate.
C4_TerminateMonotonic ==
    (IsTerminate /\ result = "Ok") =>
        ~UnsignedGt(After.static_balance, Before.static_balance)

\* a Terminate at a clock value earlier than start_time that lowered the balance
C4_Witness ==
    /\ IsTerminate /\ result = "Ok"
    /\ IsNegative(MathElapsed)
    /\ UnsignedGt(Before.static_balance, After.static_balance)

\* C5: Terminate's authorization is a logical OR.  On an owned, decodable
\* record the call is refused with MissingRequiredSignature exactly when
\* neither (sender account signs and its key is record.sender) nor (receiver
\* account signs and its key is record.receiver); when either holds the call
\* passes the check, and it returns Ok whenever the clock can be read and the
\* elapsed-time arithmetic does not overflow.
C5_TerminateAuthorization ==
    (/\ IsTerminate /\ ThreeAccounts
     /\ owner = program_id
     /\ StreamConfig_try_from_slice(pre).ok) =>
        LET bySender == Sender.is_signer /\ Sender.key = Before.sender
            byReceiver == Receiver.is_signer /\ Receiver.key = Before.receiver
        IN  /\ ~(bySender \/ byReceiver) => result = "MissingRequiredSignature"
            /\ (bySender \/ byReceiver) =>
                   result \in {"Ok", "UnsupportedSysvar", "Panic"}
            /\ ((bySender \/ byReceiver) /\ call.clock.ok /\ ~ArithmeticOverflows)
                   => result = "Ok"

\* the receiver alone signs, for a stream that some Initialize created with
\* two different parties, and Terminate succeeds
C5_Witness ==
    /\ IsTerminate /\ result = "Ok"
    /\ call.created
    /\ Before.sender # Before.receiver
    /\ ~Sender.is_signer
    /\ Receiver.is_signer

\* C6: Initialize or Terminate on a stream account the program does not own
\* returns IncorrectProgramId and leaves the account's bytes as they were,
\* whatever the signer flags, the stored bytes and the clock are.
C6_OwnerCheck ==
    (/\ (IsInitialize \/ IsTerminate) /\ ThreeAccounts
     /\ owner # program_id) =>
        /\ result = "IncorrectProgramId"
        /\ data = pre

\* an Initialize signed by the sender, with a readable clock, on a foreign
\* account that holds record-shaped bytes
C6_Witness ==
    /\ IsInitialize /\ ThreeAccounts
    /\ owner = other_program
    /\ pre = ForeignData
    /\ Sender.is_signer
    /\ call.clock.ok
    /\ result = "IncorrectProgramId"

\* C7: a call that returns IncorrectProgramId (IncorrectOwner),
\* MissingRequiredSignature, the Borsh error of the instruction or of the
\* record (MalformedInstruction, MalformedRecord) or UnsupportedSysvar
\* (ClockUnavailable) leaves the stream account's bytes unchanged.
C7_FailureLeavesStorage ==
    (result \in {"IncorrectProgramId", "MissingRequiredSignature",
                 "BorshIoError(instruction)", "BorshIoError(record)",
                 "UnsupportedSysvar"}) =>
        data = pre

\* an Initialize without the sender's signature is refused on an account
\* that already holds a stream
C7_Witness ==
    /\ IsInitialize
    /\ result = "MissingRequiredSignature"
    /\ call.created
    /\ Len(pre) = RecordSize

\* C8: Terminate on a never-initialized slot (owned by the program, zeroed at
\* the record's size, no Initialize ever applied) fails with the record's
\* Borsh error (MalformedRecord) and leaves the slot unchanged, for every
\* sender and receiver account.
C8_TerminateOnZeroedSlot ==
    (/\ IsTerminate /\ ThreeAccounts
     /\ owner = program_id
     /\ ~call.created
     /\ pre = ZeroBytes(RecordSize)) =>
        /\ result = "BorshIoError(record)"
        /\ data = pre

\* C9: once an Initialize has succeeded, no successful call increases
\* static_balance, and only Terminate changes it.
C9_BalanceNeverIncreases ==
    (Invoked /\ result = "Ok" /\ call.created) =>
        /\ ~UnsignedGt(After.static_balance, Before.static_balance)
        /\ (After.static_balance # Before.static_balance => IsTerminate)

\* C10: under a clock that never goes back, once an Initialize has succeeded
\* no successful call lowers start_time or changes it at all.
C10_StartTimeSetOnce ==
    (Invoked /\ result = "Ok" /\ call.created) =>
        /\ ~SignedGt(Before.start_time, After.start_time)
        /\ After.start_time = Before.start_time

\* the true remaining balance at the call's clock value:
\* static_balance - max(0, (T - start_time) * flow_rate), floored at 0
TrueRemaining ==
    IF IsNegative(MathStreamed) THEN Before.static_balance ELSE Remainder

\* C11: a successful Terminate stores the true remaining balance; when
\* (T - start_time) * flow_rate is negative nothing is deducted.
C11_TerminateStoresTrueRemaining ==
    (IsTerminate /\ result = "Ok") =>
        After.static_balance = TrueRemaining

\* the wire layout of StreamInstruction::Initialize: tag 0, then flow_rate
\* and initial_balance, eight bytes each
InitializeLayout(bytes) ==
    Len(bytes) = 1 + 2 * WORD_BYTES /\ bytes[1] = 0

\* the wire layout of StreamInstruction::Terminate: tag 1 alone
TerminateLayout(bytes) == bytes = <<1>>

\* C12: only tag 0 with exactly two 8-byte fields runs Initialize, only tag 1
\* alone runs Terminate; all other instruction bytes fail as a malformed
\* instruction whatever the accounts are, with the storage unchanged.
C12_InstructionDecoding ==
    Invoked =>
        LET bytes == call.instruction_data
            malformed == ~InitializeLayout(bytes) /\ ~TerminateLayout(bytes)
        IN  /\ malformed =>
                  /\ result = "BorshIoError(instruction)"
                  /\ data = pre
                  /\ log = << >>
            /\ result = "BorshIoError(instruction)" => malformed
            /\ (log # << >> /\ log[1].msg = "Stream initialized") =>
                  /\ InitializeLayout(bytes)
                  /\ log[1].flow_rate = SubSeq(bytes, 2, 1 + WORD_BYTES)
                  /\ log[1].initial_balance =
                         SubSeq(bytes, 2 + WORD_BYTES, 1 + 2 * WORD_BYTES)
            /\ (log # << >> /\ log[1].msg = "Stream terminated") =>
                  TerminateLayout(bytes)

C12_Witness ==
    /\ Invoked
    /\ call.instruction_data = <<1, 0>>
    /\ call.created
    /\ ThreeAccounts
    /\ owner = program_id
    /\ Sender.is_signer
    /\ Sender.key = RecordIn(pre).sender
    /\ call.clock.ok
    /\ result = "BorshIoError(instruction)"

\* C13: the bytes a successful Initialize or Terminate stores decode to a
\* record that encodes to the same bytes, a record decodes from its encoding
\* with all five fields intact, and a buffer of any other length than the
\* record's does not decode (Terminate on it fails as a malformed record).
C13_RecordRoundTrip ==
    /\ (Invoked /\ result = "Ok") =>
          LET stored == SubSeq(data, 1, RecordSize)
              decoded == StreamConfig_try_from_slice(stored)
              r == StreamConfig_initialize(Sender.key, Receiver.key,
                       Instruction.flow_rate, Instruction.initial_balance, Now)
          IN  /\ decoded.ok
              /\ StreamConfig_serialize(decoded.stream) = stored
              /\ IsInitialize =>
                    /\ Len(StreamConfig_serialize(r)) = RecordSize
                    /\ StreamConfig_try_from_slice(StreamConfig_serialize(r)).ok
                    /\ StreamConfig_try_from_slice(StreamConfig_serialize(r)).stream = r
                    /\ decoded.stream = r
              /\ Len(data) # RecordSize => ~StreamConfig_try_from_slice(data).ok
    /\ (Invoked /\ Len(pre) # RecordSize) =>
          /\ ~StreamConfig_try_from_slice(pre).ok
          /\ (IsTerminate /\ ThreeAccounts /\ owner = program_id) =>
                (result = "BorshIoError(record)" /\ data = pre)

C13_Witness ==
    /\ IsTerminate
    /\ result = "Ok"
    /\ Len(data) = RecordSize
    /\ After.sender # After.receiver
    /\ After.static_balance # Before.static_balance
    /\ After.static_balance # U64(0)
    /\ After.flow_rate # After.start_time
    /\ StreamConfig_serialize(After) = data

\* C14: once a Terminate has succeeded on a record, a later successful
\* Terminate on it (no Initialize in between, the clock not gone back)
\* leaves the stored record unchanged.
C14_TerminateMutatesOnce ==
    (IsTerminate /\ result = "Ok" /\ call.terminated) => data = pre

\* C15: zero is absorbing: a successful Terminate on a record whose
\* static_balance is 0 leaves the balance at 0 and every byte of the record
\* as it was, whatever the clock, flow_rate and start_time are.
C15_ZeroIsAbsorbing ==
    (IsTerminate /\ result = "Ok" /\ Before.static_balance = U64(0)) =>
        /\ After.static_balance = U64(0)
        /\ data = pre

C15_Witness ==
    /\ IsTerminate
    /\ result = "Ok"
    /\ call.created
    /\ Before.static_balance = U64(0)
    /\ MathStreamed # ZeroBytes(WIDE_BYTES)
    /\ ~IsNegative(MathStreamed)
    /\ After.static_balance = U64(0)

\* C16: a successful Terminate changes static_balance only: sender,
\* receiver, flow_rate and start_time are stored as they were (the record is
\* not re-based to the current time), and the account keeps its length.
C16_TerminateFrame ==
    (IsTerminate /\ result = "Ok") =>
        /\ After.sender = Before.sender
        /\ After.receiver = Before.receiver
        /\ After.flow_rate = Before.flow_rate
        /\ After.start_time = Before.start_time
        /\ Len(data) = Len(pre)

C16_Witness ==
    /\ IsTerminate
    /\ result = "Ok"
    /\ After.static_balance # Before.static_balance
    /\ Now # Before.start_time
    /\ After.start_time = Before.start_time
    /\ After.sender # After.receiver

\* C17: Initialize asks for no empty slot: on a program-owned account that
\* already holds a record, active or settled, it goes through whenever the
\* sender account signs, whoever that signer is, and all five fields of the
\* stored record are replaced by those of the call.
C17_InitializeOverwrites ==
    (IsInitialize /\ ThreeAccounts /\ owner = program_id /\ call.created
        /\ Sender.is_signer) =>
        /\ result \in {"Ok", "UnsupportedSysvar"}
        /\ call.clock.ok =>
              /\ result = "Ok"
              /\ After = StreamConfig_initialize(Sender.key, Receiver.key,
                             Instruction.flow_rate, Instruction.initial_balance,
                             Now)

C17_Witness ==
    /\ IsInitialize
    /\ result = "Ok"
    /\ call.created
    /\ call.terminated
    /\ Sender.key # Before.sender
    /\ Sender.key # Before.receiver
    /\ After.sender # Before.sender
    /\ After.receiver # Before.receiver
    /\ After.flow_rate # Before.flow_rate
    /\ After.static_balance # Before.static_balance
    /\ After.start_time # Before.start_time

\* C18: the log line of a successful Terminate names the party whose
\* authorization let the call through, "sender" only when the sender account
\* signed and is the record's sender, "receiver" only when the receiver
\* account signed and is the record's receiver, and gives the balance stored.
C18_LogNamesInitiator ==
    (IsTerminate /\ result = "Ok") =>
        LET bySender == Sender.is_signer /\ Before.sender = Sender.key
            byReceiver == Receiver.is_signer /\ Before.receiver = Receiver.key
        IN  /\ Len(log) = 1
            /\ log[1].msg = "Stream terminated"
            /\ log[1].by \in {"sender", "receiver"}
            /\ log[1].by = "sender" => bySender
            /\ log[1].by = "receiver" => byReceiver
            /\ log[1].remaining_balance = After.static_balance

\* C19: the stream account is written last and whole: an invocation that
\* does not return Ok leaves the stored bytes as they were, so that no
\* partially written record is ever in the account, and one that returns Ok
\* leaves a whole record in an account of the same length.
C19_WriteLast ==
    Invoked =>
        /\ result # "Ok" => data = pre
        /\ result = "Ok" => (HoldsRecord(data) /\ Len(data) = Len(pre))

\* C20: no signature, no change: with three accounts of which neither the
\* sender nor the receiver account is a signer, the call fails (Initialize
\* for the missing signature, Terminate for it or for an earlier check) and
\* the stored bytes stay; a call with fewer than three accounts fails and
\* the stored bytes stay.
C20_NoChangeWithoutSignature ==
    Invoked =>
        /\ (ThreeAccounts /\ ~Sender.is_signer /\ ~Receiver.is_signer) =>
              /\ data = pre
              /\ log = << >>
              /\ result # "Ok"
              /\ (IsInitialize /\ owner = program_id) =>
                    result = "MissingRequiredSignature"
              /\ IsTerminate =>
                    result \in {"IncorrectProgramId", "BorshIoError(record)",
                                "MissingRequiredSignature"}
              /\ (IsTerminate /\ owner = program_id
                      /\ StreamConfig_try_from_slice(pre).ok) =>
                    result = "MissingRequiredSignature"
        /\ Len(call.accounts) < 3 =>
              /\ data = pre
              /\ log = << >>
              /\ result = (IF Instruction.ok THEN "NotEnoughAccountKeys"
                           ELSE "BorshIoError(instruction)")

C20_Witness ==
    /\ IsInitialize
    /\ ThreeAccounts
    /\ ~Sender.is_signer
    /\ ~Receiver.is_signer
    /\ owner = program_id
    /\ call.clock.ok
    /\ Len(pre) = RecordSize
    /\ result = "MissingRequiredSignature"
    /\ data = pre

====
